---- MODULE Spec2Model ----
(***************************************************************************)
(* Financial KPI dashboard: the line-item resolver (_pick), the statement  *)
(* fetcher (fetch), the KPI calculator (compute_kpis) of src/pipeline.py   *)
(* and the read-through cache of src/dashboard.py (load_kpis behind        *)
(* st.cache_data, and the "Refresh data" button).                          *)
(*                                                                         *)
(* Text is modelled as sequences of one-character strings so that          *)
(* str.strip, str.lower and the substring test are computed, not assumed.  *)
(* float64 cells are modelled as exact rationals together with the IEEE    *)
(* specials NaN, +inf and -inf; rounding is not modelled.                  *)
(***************************************************************************)
EXTENDS Integers, Sequences, FiniteSets, TLC

VARIABLES
    pc,          \* position of the running script
    pick_df,     \* resolver run: the statement table handed to _pick
    pick_names,  \* resolver run: the candidate list handed to _pick
    pick_out,    \* resolver run: what _pick returned
    feed,        \* pipeline run: what the provider serves for the ticker
    pad,         \* whether Series.pct_change forward-fills (pandas < 3) or not
    proc,        \* data/processed/{ticker}_kpis.csv, per ticker
    raw,         \* data/raw/{ticker}_*.csv, per ticker: the files that exist
    memo,        \* st.cache_data entries of load_kpis, per ticker
    ticker,      \* the company selected in this script run
    refresh,     \* whether "Refresh data" was pressed for this script run
    df,          \* the table bound to df at dashboard.py line 86
    out,         \* outcome of the last compute_kpis call
    loaded,      \* what the last load_kpis call returned
    ncompute,    \* compute_kpis calls per ticker in this script run
    nload        \* load_kpis calls made in this script run

vars == << pc, pick_df, pick_names, pick_out, feed, pad, proc, raw, memo,
           ticker, refresh, df, loaded, out, ncompute, nload >>

----------------------------------------------------------------------------
(* Bounds of the model *)

MaxRows == 3
MaxCands == 2
MaxPeriods == 3
MaxLoads == 3

----------------------------------------------------------------------------
(* Text: str.strip, str.lower, substring *)

UPPER == <<"A","B","C","D","E","F","G","H","I","J","K","L","M",
           "N","O","P","Q","R","S","T","U","V","W","X","Y","Z">>
LOWER == <<"a","b","c","d","e","f","g","h","i","j","k","l","m",
           "n","o","p","q","r","s","t","u","v","w","x","y","z">>
WHITESPACE == {" "}

\* an explicit tuple for a sequence given by a rule: TLC evaluates a function
\* constructor anew at every application, a tuple once
tuple(s) == s \o <<>>

TO_LOWER ==
    [c \in {UPPER[i] : i \in 1..Len(UPPER)} |->
        LOWER[CHOOSE i \in 1..Len(UPPER) : UPPER[i] = c]]

char_lower(c) == IF c \in DOMAIN TO_LOWER THEN TO_LOWER[c] ELSE c

str_lower(s) == tuple([i \in 1..Len(s) |-> char_lower(s[i])])

RECURSIVE str_lstrip(_)
str_lstrip(s) ==
    IF s # <<>> /\ Head(s) \in WHITESPACE THEN str_lstrip(Tail(s)) ELSE s

RECURSIVE str_rstrip(_)
str_rstrip(s) ==
    IF s # <<>> /\ s[Len(s)] \in WHITESPACE
    THEN str_rstrip(SubSeq(s, 1, Len(s) - 1)) ELSE s

str_strip(s) == str_rstrip(str_lstrip(s))

\* n.strip().lower()
norm(s) == str_lower(str_strip(s))

\* sub in s
str_in(sub, s) ==
    \/ sub = <<>>
    \/ \E i \in 1..(Len(s) - Len(sub) + 1) :
          s[i] = sub[1] /\ SubSeq(s, i, i + Len(sub) - 1) = sub

----------------------------------------------------------------------------
(* float64 cells *)

NaN == [k |-> "nan", n |-> 0, d |-> 1]
PInf == [k |-> "inf", n |-> 0, d |-> 1]
NInf == [k |-> "-inf", n |-> 0, d |-> 1]

Abs(i) == IF i < 0 THEN -i ELSE i

RECURSIVE Gcd(_, _)
Gcd(a, b) == IF b = 0 THEN a ELSE Gcd(b, a % b)

\* the rational n/d in lowest terms, d > 0
Rat(n, d) ==
    LET g == Gcd(Abs(n), Abs(d))
        s == IF d < 0 THEN -1 ELSE 1
    IN  [k |-> "num", n |-> (s * n) \div g, d |-> (s * d) \div g]

Num(i) == [k |-> "num", n |-> i, d |-> 1]

isna(x) == x.k = "nan"
IsNum(x) == x.k = "num"
IsInf(x) == x.k \in {"inf", "-inf"}
IsZero(x) == x.k = "num" /\ x.n = 0
\* -1, 0, 1; unused for NaN
Sign(x) ==
    CASE x.k = "inf" -> 1
      [] x.k = "-inf" -> -1
      [] OTHER -> IF x.n > 0 THEN 1 ELSE IF x.n < 0 THEN -1 ELSE 0
Signed(s) == IF s > 0 THEN PInf ELSE NInf

FNeg(x) ==
    CASE x.k = "nan" -> NaN
      [] x.k = "inf" -> NInf
      [] x.k = "-inf" -> PInf
      [] OTHER -> Rat(-x.n, x.d)

FAdd(x, y) ==
    CASE isna(x) \/ isna(y) -> NaN
      [] IsInf(x) /\ IsInf(y) -> IF x = y THEN x ELSE NaN
      [] IsInf(x) -> x
      [] IsInf(y) -> y
      [] OTHER -> Rat(x.n * y.d + y.n * x.d, x.d * y.d)

FSub(x, y) == FAdd(x, FNeg(y))

\* IEEE division: x/0 is +-inf, 0/0 is NaN, nothing raises
FDiv(x, y) ==
    CASE isna(x) \/ isna(y) -> NaN
      [] IsInf(x) /\ IsInf(y) -> NaN
      [] IsInf(x) -> Signed(Sign(x) * (IF Sign(y) < 0 THEN -1 ELSE 1))
      [] IsInf(y) -> Num(0)
      [] IsZero(y) -> IF IsZero(x) THEN NaN ELSE Signed(Sign(x))
      [] OTHER -> Rat(x.n * y.d, x.d * y.n)

----------------------------------------------------------------------------
(* DataFrame and Series.  A statement table has one row per line item      *)
(* (index: the labels) and one column per period end (columns); a Series   *)
(* is one row of it, indexed by period end.  The labels of a table are     *)
(* distinct (rows are keyed by label), their normalised forms need not be. *)

NoneFrame == [none |-> TRUE, index |-> <<>>, columns |-> <<>>, data |-> <<>>]
Frame(index, columns, data) ==
    [none |-> FALSE, index |-> index, columns |-> columns, data |-> data]
empty(frame) == Len(frame.index) = 0 \/ Len(frame.columns) = 0

NoneSeries == [none |-> TRUE, index |-> <<>>, vals |-> <<>>]

\* df.loc[label]
loc(frame, label) ==
    LET i == CHOOSE i \in 1..Len(frame.index) : frame.index[i] = label
    IN  [none |-> FALSE, index |-> frame.columns, vals |-> frame.data[i]]

Min(S) == CHOOSE i \in S : \A j \in S : i <= j

----------------------------------------------------------------------------
(* pipeline.py: _pick *)

\* d[key] = val on an insertion-ordered dict, held as a sequence of pairs
dict_set(d, key, val) ==
    IF \E e \in 1..Len(d) : d[e][1] = key
    THEN tuple([e \in 1..Len(d) |-> IF d[e][1] = key THEN <<key, val>> ELSE d[e]])
    ELSE Append(d, <<key, val>>)

dict_get(d, key) == d[CHOOSE e \in 1..Len(d) : d[e][1] = key][2]

\* {str(i).strip().lower(): i for i in df.index}
RECURSIVE idx_map_upto(_, _)
idx_map_upto(index, n) ==
    IF n = 0 THEN <<>>
    ELSE LET d == idx_map_upto(index, n - 1)
         IN  dict_set(d, norm(index[n]), index[n])

idx_map(frame) == idx_map_upto(frame.index, Len(frame.index))

\* _pick taking the last candidate with an exact match instead of the first
_pick_last_candidate(frame, names) ==
    IF frame.none \/ empty(frame) THEN NoneSeries
    ELSE
      LET m == idx_map(frame)
          key == tuple([n \in 1..Len(names) |-> norm(names[n])])
          exact == {n \in 1..Len(names) : \E e \in 1..Len(m) : m[e][1] = key[n]}
          relaxed == {e \in 1..Len(m) :
                       \E n \in 1..Len(names) : str_in(key[n], m[e][1])}
          last == CHOOSE n \in exact : \A k \in exact : k <= n
      IN  IF exact # {} THEN loc(frame, dict_get(m, key[last]))
          ELSE IF relaxed # {} THEN loc(frame, m[Min(relaxed)][2])
          ELSE NoneSeries

_pick(frame, names) ==
    IF frame.none \/ empty(frame) THEN NoneSeries
    ELSE
      LET m == idx_map(frame)
          key == tuple([n \in 1..Len(names) |-> norm(names[n])])
          exact == {n \in 1..Len(names) : \E e \in 1..Len(m) : m[e][1] = key[n]}
          relaxed == {e \in 1..Len(m) :
                       \E n \in 1..Len(names) : str_in(key[n], m[e][1])}
      IN  IF exact # {} THEN loc(frame, dict_get(m, key[Min(exact)]))
          ELSE IF relaxed # {} THEN loc(frame, m[Min(relaxed)][2])
          ELSE NoneSeries

----------------------------------------------------------------------------
(* pipeline.py lines 38-62: the candidate names of the six line items *)

REVENUE_NAMES ==
    << <<"T","o","t","a","l"," ","R","e","v","e","n","u","e">>,
       <<"R","e","v","e","n","u","e">>,
       <<"S","a","l","e","s">>,
       <<"O","p","e","r","a","t","i","n","g"," ","R","e","v","e","n","u","e">> >>
GROSS_PROFIT_NAMES ==
    << <<"G","r","o","s","s"," ","P","r","o","f","i","t">>,
       <<"G","r","o","s","s"," ","I","n","c","o","m","e">> >>
OPERATING_INC_NAMES ==
    << <<"O","p","e","r","a","t","i","n","g"," ","I","n","c","o","m","e">>,
       <<"E","B","I","T">>,
       <<"E","a","r","n","i","n","g","s"," ","B","e","f","o","r","e"," ","I","n","t","e","r","e","s","t"," ","a","n","d"," ","T","a","x","e","s">>,
       <<"O","p","e","r","a","t","i","n","g"," ","P","r","o","f","i","t">> >>
NET_INCOME_NAMES ==
    << <<"N","e","t"," ","I","n","c","o","m","e">>,
       <<"N","e","t"," ","I","n","c","o","m","e"," ","C","o","m","m","o","n"," ","S","t","o","c","k","h","o","l","d","e","r","s">>,
       <<"N","e","t"," ","I","n","c","o","m","e"," ","F","r","o","m"," ","C","o","n","t","i","n","u","i","n","g"," ","O","p","e","r","a","t","i","o","n","s">>,
       <<"P","r","o","f","i","t"," ","A","t","t","r","i","b","u","t","a","b","l","e"," ","T","o"," ","O","w","n","e","r","s">> >>
EQUITY_NAMES ==
    << <<"T","o","t","a","l"," ","S","t","o","c","k","h","o","l","d","e","r"," ","E","q","u","i","t","y">>,
       <<"T","o","t","a","l"," ","S","h","a","r","e","h","o","l","d","e","r"," ","E","q","u","i","t","y">>,
       <<"T","o","t","a","l"," ","E","q","u","i","t","y">>,
       <<"S","t","o","c","k","h","o","l","d","e","r","s","'"," ","E","q","u","i","t","y">>,
       <<"S","h","a","r","e","h","o","l","d","e","r","s","'"," ","E","q","u","i","t","y">>,
       <<"T","o","t","a","l"," ","E","q","u","i","t","y"," ","G","r","o","s","s"," ","M","i","n","o","r","i","t","y"," ","I","n","t","e","r","e","s","t">>,
       <<"T","o","t","a","l"," ","E","q","u","i","t","y"," ","N","e","t"," ","M","i","n","o","r","i","t","y"," ","I","n","t","e","r","e","s","t">> >>
TOTAL_DEBT_NAMES ==
    << <<"T","o","t","a","l"," ","D","e","b","t">>,
       <<"S","h","o","r","t"," ","L","o","n","g"," ","T","e","r","m"," ","D","e","b","t"," ","T","o","t","a","l">>,
       <<"T","o","t","a","l"," ","I","n","t","e","r","e","s","t"," ","B","e","a","r","i","n","g"," ","D","e","b","t">>,
       <<"S","h","o","r","t"," ","T","e","r","m"," ","D","e","b","t">>,
       <<"L","o","n","g"," ","T","e","r","m"," ","D","e","b","t">> >>

(* labels of statement rows *)

L_TOTAL_REVENUE == <<"T","o","t","a","l"," ","R","e","v","e","n","u","e">>
L_SALES == <<"S","a","l","e","s">>
L_SALES_LOWER == <<"s","a","l","e","s"," ">>
L_NET_SALES == <<"N","e","t"," ","S","a","l","e","s">>
L_NET_SALES_UPPER == <<"N","E","T"," ","S","A","L","E","S">>
L_COST_OF_REVENUE == <<"C","o","s","t"," ","O","f"," ","R","e","v","e","n","u","e">>
L_TAX_PROVISION == <<"T","a","x"," ","P","r","o","v","i","s","i","o","n">>
L_REVENUE == <<"R","e","v","e","n","u","e">>
L_SALES_PADDED == <<" ","S","A","L","E","S"," ">>
L_GROSS_PROFIT == <<"G","r","o","s","s"," ","P","r","o","f","i","t">>
L_OPERATING_INCOME == <<"O","p","e","r","a","t","i","n","g"," ","I","n","c","o","m","e">>
L_NET_INCOME == <<"N","e","t"," ","I","n","c","o","m","e">>
L_TOTAL_EQUITY_GROSS == <<"T","o","t","a","l"," ","E","q","u","i","t","y"," ","G","r","o","s","s"," ","M","i","n","o","r","i","t","y"," ","I","n","t","e","r","e","s","t">>
L_TOTAL_DEBT == <<"T","o","t","a","l"," ","D","e","b","t">>
L_TOTAL_ASSETS == <<"T","o","t","a","l"," ","A","s","s","e","t","s">>
L_FREE_CASH_FLOW == <<"F","r","e","e"," ","C","a","s","h"," ","F","l","o","w">>

----------------------------------------------------------------------------
(* pipeline.py: compute_kpis, the frame it assembles *)

RAW_FIELDS == {"revenue", "gross_profit", "operating_income", "net_income",
               "total_equity", "total_debt"}

Range(s) == {s[i] : i \in 1..Len(s)}

\* the members of a set of integers in ascending order
RECURSIVE sorted(_)
sorted(S) == IF S = {} THEN <<>> ELSE <<Min(S)>> \o sorted(S \ {Min(S)})

\* a Python None held in an object column
PyNone == [k |-> "none", n |-> 0, d |-> 1]

\* .astype("float64") of one cell: None becomes NaN
astype_float64(x) == IF x.k = "none" THEN NaN ELSE x

\* the cell of Series s at period p once aligned on the frame's index
at(s, p) ==
    IF s.none THEN PyNone
    ELSE IF \E i \in 1..Len(s.index) : s.index[i] = p
    THEN s.vals[CHOOSE i \in 1..Len(s.index) : s.index[i] = p]
    ELSE NaN

\* lines 38-62: the six line items
pick_items(fin, bal) ==
    [revenue          |-> _pick(fin, REVENUE_NAMES),
     gross_profit     |-> _pick(fin, GROSS_PROFIT_NAMES),
     operating_income |-> _pick(fin, OPERATING_INC_NAMES),
     net_income       |-> _pick(fin, NET_INCOME_NAMES),
     total_equity     |-> _pick(bal, EQUITY_NAMES),
     total_debt       |-> _pick(bal, TOTAL_DEBT_NAMES)]

\* pd.DataFrame({...}) of Series and None raises when every value is a scalar
\* ("If using all scalar values, you must pass an index")
all_scalar(items) == \A f \in RAW_FIELDS : items[f].none

\* lines 65-74: outer join on period end, sort_index, astype("float64")
tidy_index(items) ==
    sorted(UNION {Range(items[f].index) : f \in {g \in RAW_FIELDS : ~items[g].none}})

tidy_column(items, f) ==
    LET index == tidy_index(items)
    IN  tuple([i \in 1..Len(index) |-> astype_float64(at(items[f], index[i]))])

\* Series arithmetic
div(a, b) == tuple([i \in 1..Len(a) |-> FDiv(a[i], b[i])])
shift(a) == tuple([i \in 1..Len(a) |-> IF i = 1 THEN NaN ELSE a[i - 1]])

\* Series.ffill(): a NaN takes the last value before it, a leading NaN stays
RECURSIVE ffill_at(_, _)
ffill_at(a, i) ==
    IF ~isna(a[i]) \/ i = 1 THEN a[i] ELSE ffill_at(a, i - 1)
ffill(a) == tuple([i \in 1..Len(a) |-> ffill_at(a, i)])

\* Series.pct_change(): data / data.shift(1) - 1, where data is the series
\* forward-filled under the default fill_method="pad" of pandas before 3.0
\* and the series itself from pandas 3.0 on
pct_change(a, fill) ==
    LET data == IF fill THEN ffill(a) ELSE a
        prev == shift(data)
    IN  tuple([i \in 1..Len(a) |-> FSub(FDiv(data[i], prev[i]), Num(1))])

\* avg_equity without the shift: the equity of the period itself
avg_equity_no_shift(total_equity) ==
    tuple([i \in 1..Len(total_equity) |->
             FDiv(FAdd(total_equity[i], total_equity[i]), Num(2))])

\* line 82
avg_equity(total_equity) ==
    LET prev == shift(total_equity)
    IN  tuple([i \in 1..Len(total_equity) |->
                 FDiv(FAdd(prev[i], total_equity[i]), Num(2))])

\* lines 83-84
roe_pct(net_income, total_equity) ==
    LET avg == avg_equity(total_equity)
    IN  tuple([i \in 1..Len(avg) |->
                 IF IsZero(avg[i]) \/ isna(avg[i]) THEN NaN
                 ELSE FDiv(net_income[i], avg[i])])

\* debt_to_equity without the guard of line 88
debt_to_equity_unguarded(total_debt, total_equity) == div(total_debt, total_equity)

\* lines 87-88
debt_to_equity(total_debt, total_equity) ==
    tuple([i \in 1..Len(total_equity) |->
             IF IsZero(total_equity[i]) \/ isna(total_equity[i]) THEN NaN
             ELSE FDiv(total_debt[i], total_equity[i])])

\* lines 65-92: the KPI table, one sequence per column, rows by period end
kpi_frame(items, fill) ==
    LET c == [revenue          |-> tidy_column(items, "revenue"),
              gross_profit     |-> tidy_column(items, "gross_profit"),
              operating_income |-> tidy_column(items, "operating_income"),
              net_income       |-> tidy_column(items, "net_income"),
              total_equity     |-> tidy_column(items, "total_equity"),
              total_debt       |-> tidy_column(items, "total_debt")]
    IN  [index                |-> tidy_index(items),
         revenue              |-> c.revenue,
         gross_profit         |-> c.gross_profit,
         operating_income     |-> c.operating_income,
         net_income           |-> c.net_income,
         total_equity         |-> c.total_equity,
         total_debt           |-> c.total_debt,
         gross_margin_pct     |-> div(c.gross_profit, c.revenue),
         operating_margin_pct |-> div(c.operating_income, c.revenue),
         net_margin_pct       |-> div(c.net_income, c.revenue),
         roe_pct              |-> roe_pct(c.net_income, c.total_equity),
         debt_to_equity       |-> debt_to_equity(c.total_debt, c.total_equity),
         revenue_yoy          |-> pct_change(c.revenue, fill),
         net_income_yoy       |-> pct_change(c.net_income, fill)]

KPI_COLUMNS == {"revenue", "gross_profit", "operating_income", "net_income",
                "total_equity", "total_debt", "gross_margin_pct",
                "operating_margin_pct", "net_margin_pct", "roe_pct",
                "debt_to_equity", "revenue_yoy", "net_income_yoy"}

NoTable == [index |-> <<>>]

----------------------------------------------------------------------------
(* CSV files: DataFrame.to_csv and pd.read_csv *)

NoFile == [exists |-> FALSE]

\* one float as to_csv writes it: NaN as the empty field, the infinities as
\* inf and -inf, a number as its decimal literal
to_csv_cell(x) ==
    CASE isna(x) -> [txt |-> "", n |-> 0, d |-> 1]
      [] x.k = "inf" -> [txt |-> "inf", n |-> 0, d |-> 1]
      [] x.k = "-inf" -> [txt |-> "-inf", n |-> 0, d |-> 1]
      [] OTHER -> [txt |-> "literal", n |-> x.n, d |-> x.d]

read_csv_cell(c) ==
    CASE c.txt = "" -> NaN
      [] c.txt = "inf" -> PInf
      [] c.txt = "-inf" -> NInf
      [] OTHER -> Rat(c.n, c.d)

to_csv(frame) ==
    [exists |-> TRUE, index |-> frame.index,
     cells |-> [f \in KPI_COLUMNS |->
                   [i \in 1..Len(frame.index) |-> to_csv_cell(frame[f][i])]]]

\* the position in index of each period, taken in ascending order
sort_order(index) ==
    LET s == sorted(Range(index))
    IN  [i \in 1..Len(s) |-> CHOOSE j \in 1..Len(index) : index[j] = s[i]]

\* df.sort_index()
sort_index(frame) ==
    LET o == sort_order(frame.index)
    IN  [f \in DOMAIN frame |-> [i \in 1..Len(o) |-> frame[f][o[i]]]]

\* pd.read_csv(csv, index_col=0, parse_dates=True)
read_csv(file) ==
    LET col(f) == [i \in 1..Len(file.index) |-> read_csv_cell(file.cells[f][i])]
    IN  [index                |-> file.index,
         revenue              |-> col("revenue"),
         gross_profit         |-> col("gross_profit"),
         operating_income     |-> col("operating_income"),
         net_income           |-> col("net_income"),
         total_equity         |-> col("total_equity"),
         total_debt           |-> col("total_debt"),
         gross_margin_pct     |-> col("gross_margin_pct"),
         operating_margin_pct |-> col("operating_margin_pct"),
         net_margin_pct       |-> col("net_margin_pct"),
         roe_pct              |-> col("roe_pct"),
         debt_to_equity       |-> col("debt_to_equity"),
         revenue_yoy          |-> col("revenue_yoy"),
         net_income_yoy       |-> col("net_income_yoy")]

----------------------------------------------------------------------------
(* pipeline.py: fetch and compute_kpis *)

\* What yfinance serves for one ticker: the three statements, or a failure
\* of the request (raises = TRUE).
Served(fin, bal, cfs) == [raises |-> FALSE, fin |-> fin, bal |-> bal, cfs |-> cfs]
Unreachable ==
    [raises |-> TRUE, fin |-> NoneFrame, bal |-> NoneFrame, cfs |-> NoneFrame]

usable(frame) == ~frame.none /\ ~empty(frame)

\* lines 24-30: the raw files of one ticker after fetch.  The files are
\* written and never read: the model keeps which of them exist.
fetch(files, st) ==
    files \cup (IF usable(st.fin) THEN {"financials"} ELSE {})
          \cup (IF usable(st.bal) THEN {"balance_sheet"} ELSE {})
          \cup (IF usable(st.cfs) THEN {"cashflow"} ELSE {})

OK == "ok"
MISSING == "ValueError: Missing statements from yfinance for this ticker."
ALL_SCALAR == "ValueError: If using all scalar values, you must pass an index"
PROVIDER == "provider error"

\* compute_status testing the statements for None only, not for emptiness
compute_status_none_only(st) ==
    IF st.raises THEN PROVIDER
    ELSE IF st.fin.none \/ st.bal.none THEN MISSING
    ELSE IF all_scalar(pick_items(st.fin, st.bal)) THEN ALL_SCALAR
    ELSE OK

\* lines 32-96: how one call ends, and the table it returns
compute_status(st) ==
    IF st.raises THEN PROVIDER
    ELSE IF ~usable(st.fin) \/ ~usable(st.bal) THEN MISSING
    ELSE IF all_scalar(pick_items(st.fin, st.bal)) THEN ALL_SCALAR
    ELSE OK

compute_frame(st, fill) == kpi_frame(pick_items(st.fin, st.bal), fill)

\* compute_kpis(t): fetch writes the raw files, then either the call raises
\* or the table is written to the processed store and returned
compute_kpis(t, st) ==
    LET status == compute_status(st)
    IN  /\ raw' = IF st.raises THEN raw
                  ELSE [raw EXCEPT ![t] = fetch(raw[t], st)]
        /\ ncompute' = [ncompute EXCEPT ![t] = @ + 1]
        /\ IF status = OK
           THEN /\ out' = [status |-> OK, ticker |-> t,
                           frame |-> compute_frame(st, pad)]
                /\ proc' = [proc EXCEPT ![t] = to_csv(out'.frame)]
           ELSE /\ proc' = proc
                /\ out' = [status |-> status, ticker |-> t, frame |-> NoTable]

----------------------------------------------------------------------------
(* dashboard.py: load_kpis behind st.cache_data, and the script *)

\* the tickers of CATS["Consumer & Staples"] the model follows
TICKERS == {"ULVR.L", "TSCO.L"}

NoEntry == [cached |-> FALSE]
Entry(frame) == [cached |-> TRUE, value |-> frame]

NoReturn == [raised |-> FALSE, ticker |-> "", frame |-> NoTable]
NoOutcome == [status |-> "", ticker |-> "", frame |-> NoTable]

\* load_kpis that never reads the CSV: a miss of the cache always computes
load_kpis_no_csv(t, st) ==
    /\ nload' = nload + 1
    /\ IF memo[t].cached
       THEN /\ loaded' = [raised |-> FALSE, ticker |-> t, frame |-> memo[t].value]
            /\ UNCHANGED << memo, proc, raw, out, ncompute >>
       ELSE /\ compute_kpis(t, st)
            /\ IF out'.status = OK
               THEN /\ loaded' = [raised |-> FALSE, ticker |-> t,
                                  frame |-> sort_index(out'.frame)]
                    /\ memo' = [memo EXCEPT ![t] = Entry(loaded'.frame)]
               ELSE /\ loaded' = [raised |-> TRUE, ticker |-> t, frame |-> NoTable]
                    /\ memo' = memo

\* lines 45-55: one call load_kpis(t); st is what the provider serves if the
\* call has to compute.  loaded' is what the call returns or that it raised.
load_kpis(t, st) ==
    /\ nload' = nload + 1
    /\ IF memo[t].cached
       THEN /\ loaded' = [raised |-> FALSE, ticker |-> t, frame |-> memo[t].value]
            /\ UNCHANGED << memo, proc, raw, out, ncompute >>
       ELSE IF proc[t].exists
       THEN /\ loaded' = [raised |-> FALSE, ticker |-> t,
                          frame |-> sort_index(read_csv(proc[t]))]
            /\ memo' = [memo EXCEPT ![t] = Entry(loaded'.frame)]
            /\ UNCHANGED << proc, raw, out, ncompute >>
       ELSE /\ compute_kpis(t, st)
            /\ IF out'.status = OK
               THEN /\ loaded' = [raised |-> FALSE, ticker |-> t,
                                  frame |-> sort_index(out'.frame)]
                    /\ memo' = [memo EXCEPT ![t] = Entry(loaded'.frame)]
               ELSE /\ loaded' = [raised |-> TRUE, ticker |-> t, frame |-> NoTable]
                    /\ memo' = memo

\* a clear that leaves the entries in place
clear_nothing(m) == m

\* load_kpis.clear()
clear(m) == [t \in TICKERS |-> NoEntry]

UnusedPick == << pick_df, pick_names, pick_out >>

\* A script run starts: the user picked a company and did or did not press
\* "Refresh data" (lines 71-79).
Rerun(t, pressed) ==
    /\ pc = "idle"
    /\ ticker' = t
    /\ refresh' = pressed
    /\ pc' = IF pressed THEN "refresh" ELSE "load"
    /\ UNCHANGED << proc, raw, memo, df, loaded, out, ncompute, nload,
                    feed, pad, UnusedPick >>

\* a Refresh that only clears the cache and recomputes nothing
Refresh_clear_only(st) ==
    /\ pc = "refresh"
    /\ memo' = clear(memo)
    /\ pc' = "load"
    /\ UNCHANGED << proc, raw, out, ncompute, ticker, refresh, df, loaded, nload,
                    feed, pad, UnusedPick >>

\* lines 81-84: recompute, overwrite the CSV, then clear the cache; an
\* exception of compute_kpis ends the run before the clear
Refresh(st) ==
    /\ pc = "refresh"
    /\ compute_kpis(ticker, st)
    /\ IF out'.status = OK
       THEN memo' = clear(memo) /\ pc' = "load"
       ELSE memo' = memo /\ pc' = "stopped"
    /\ UNCHANGED << ticker, refresh, df, loaded, nload, feed, pad, UnusedPick >>

\* line 86: df = load_kpis(ticker)
Load(st) ==
    /\ pc = "load"
    /\ load_kpis(ticker, st)
    /\ IF loaded'.raised
       THEN df' = df /\ pc' = "stopped"
       ELSE df' = loaded'.frame /\ pc' = "sector"
    /\ UNCHANGED << ticker, refresh, feed, pad, UnusedPick >>

\* lines 119-124 and 143-149: the sector-average loops, which swallow a
\* failed load of a peer
SectorLoad(tkr, st) ==
    /\ pc = "sector"
    /\ nload < MaxLoads
    /\ load_kpis(tkr, st)
    /\ UNCHANGED << pc, ticker, refresh, df, feed, pad, UnusedPick >>

SectorDone ==
    /\ pc = "sector"
    /\ pc' = "compare"
    /\ UNCHANGED << proc, raw, memo, ticker, refresh, df, loaded, out, ncompute,
                    nload, feed, pad, UnusedPick >>

\* lines 176-179: the peer comparison, where a failed load ends the run
CompareLoad(tkr, st) ==
    /\ pc = "compare"
    /\ nload < MaxLoads
    /\ load_kpis(tkr, st)
    /\ pc' = IF loaded'.raised THEN "stopped" ELSE "compare"
    /\ UNCHANGED << ticker, refresh, df, feed, pad, UnusedPick >>

\* the run ends (at the end of the script or on the exception shown to the
\* user); its locals are gone
Finish ==
    /\ pc \in {"compare", "stopped"}
    /\ pc' = "idle"
    /\ df' = NoTable
    /\ loaded' = NoReturn
    /\ out' = NoOutcome
    /\ ncompute' = [t \in TICKERS |-> 0]
    /\ nload' = 0
    /\ UNCHANGED << proc, raw, memo, ticker, refresh, feed, pad, UnusedPick >>

----------------------------------------------------------------------------
(* Statements served by the provider.  yfinance lists the newest period    *)
(* first, so the columns of a statement run from the last period down.     *)

newest_first(P) == [i \in 1..P |-> P + 1 - i]

nums(s) == [i \in 1..Len(s) |-> Num(s[i])]

EmptyFrame == Frame(<<>>, <<>>, <<>>)

FinA == Frame(<< L_TOTAL_REVENUE, L_GROSS_PROFIT, L_OPERATING_INCOME, L_NET_INCOME >>,
              << 2, 1 >>,
              << nums(<<120, 100>>), nums(<<60, 40>>), nums(<<30, 20>>),
                 nums(<<10, 10>>) >>)
FinB == Frame(<< L_SALES, L_TOTAL_REVENUE, L_NET_INCOME >>, << 2, 1 >>,
              << nums(<<999, 999>>), nums(<<120, 100>>), nums(<<20, 10>>) >>)
FinX == Frame(<< L_TAX_PROVISION >>, << 2, 1 >>, << nums(<<5, 5>>) >>)
BalA == Frame(<< L_TOTAL_ASSETS, L_TOTAL_EQUITY_GROSS, L_TOTAL_DEBT >>, << 2, 1 >>,
              << nums(<<90, 80>>), nums(<<0, 50>>), nums(<<30, 20>>) >>)
BalX == Frame(<< L_TOTAL_ASSETS >>, << 2, 1 >>, << nums(<<90, 80>>) >>)
CfsA == Frame(<< L_FREE_CASH_FLOW >>, << 2, 1 >>, << nums(<<7, 6>>) >>)

\* what a request of the dashboard may be served
ANSWERS ==
    { Served(FinA, BalA, CfsA), Served(FinB, BalA, CfsA), Served(FinA, BalX, CfsA),
      Served(FinA, EmptyFrame, CfsA), Served(NoneFrame, BalA, CfsA),
      Served(FinX, BalX, CfsA), Unreachable }

----------------------------------------------------------------------------
(* The dashboard *)

Idle ==
    /\ raw = [t \in TICKERS |-> {}]
    /\ memo = [t \in TICKERS |-> NoEntry]
    /\ ticker = "ULVR.L"
    /\ refresh = FALSE
    /\ df = NoTable
    /\ loaded = NoReturn
    /\ out = NoOutcome
    /\ ncompute = [t \in TICKERS |-> 0]
    /\ nload = 0

NoPick ==
    /\ pick_df = NoneFrame
    /\ pick_names = <<>>
    /\ pick_out = NoneSeries

Init ==
    /\ pc = "idle"
    /\ pad \in BOOLEAN
    /\ feed = Unreachable
    /\ proc = [t \in TICKERS |-> NoFile]
    /\ Idle
    /\ NoPick

\* what load_kpis(t) may be served: the provider is asked only when the call
\* finds neither a cache entry nor a CSV
answers(t) == IF memo[t].cached \/ proc[t].exists THEN {Unreachable} ELSE ANSWERS

Next ==
    \/ \E t \in TICKERS, pressed \in BOOLEAN : Rerun(t, pressed)
    \/ \E st \in ANSWERS : Refresh(st)
    \/ \E st \in answers(ticker) : Load(st)
    \/ \E tkr \in TICKERS : \E st \in answers(tkr) : SectorLoad(tkr, st)
    \/ SectorDone
    \/ \E tkr \in TICKERS : \E st \in answers(tkr) : CompareLoad(tkr, st)
    \/ Finish

Spec == Init /\ [][Next]_vars

----------------------------------------------------------------------------
(* The resolver alone: _pick applied to a table and a candidate list *)

PICK_LABELS == { L_TOTAL_REVENUE, L_SALES, L_SALES_LOWER, L_NET_SALES,
                 L_NET_SALES_UPPER, L_COST_OF_REVENUE, L_TAX_PROVISION }
PICK_CANDIDATES == { L_TOTAL_REVENUE, L_REVENUE, L_SALES, L_SALES_PADDED }

Distinct(s) == \A i, j \in 1..Len(s) : i # j => s[i] # s[j]

\* a one-period table with the given labels; row i holds the value i
PickFrame(index) ==
    Frame(index, IF index = <<>> THEN <<>> ELSE << 1 >>,
          [i \in 1..Len(index) |-> << Num(i) >>])

PickInit ==
    /\ pc = "pick"
    /\ \E k \in 0..MaxRows : \E index \in [1..k -> PICK_LABELS] :
          Distinct(index) /\ pick_df \in {PickFrame(index), NoneFrame}
    /\ \E k \in 1..MaxCands : pick_names \in [1..k -> PICK_CANDIDATES]
    /\ pick_out = NoneSeries
    /\ pad = TRUE
    /\ feed = Unreachable
    /\ proc = [t \in TICKERS |-> NoFile]
    /\ Idle

PickRun ==
    /\ pc = "pick"
    /\ pick_out' = _pick(pick_df, pick_names)
    /\ pc' = "picked"
    /\ UNCHANGED << pick_df, pick_names, feed, pad, proc, raw, memo, ticker,
                    refresh, df, loaded, out, ncompute, nload >>

PickNext == PickRun

PickSpec == PickInit /\ [][PickNext]_vars

----------------------------------------------------------------------------
(* The pipeline alone: python pipeline.py, that is compute_kpis("ULVR.L") *)
(* on what the provider serves                                            *)

GROWTH_VALUES == {NaN, Num(0), Num(100), Num(120)}
NET_INCOME_VALUES == {NaN, Num(10)}
EQUITY_VALUES == {NaN, Num(-50), Num(0), Num(50)}

const(P, x) == [i \in 1..P |-> x]

\* revenue, or else net income, varies period by period
GrowthFeed ==
    \E P \in 1..MaxPeriods : \E s \in [1..P -> GROWTH_VALUES] :
      \E rows \in {<< s, const(P, Num(10)) >>, << const(P, Num(100)), s >>} :
      feed = Served(Frame(<< L_TOTAL_REVENUE, L_NET_INCOME >>, newest_first(P), rows),
                    Frame(<< L_TOTAL_EQUITY_GROSS, L_TOTAL_DEBT >>, newest_first(P),
                          << const(P, Num(50)), const(P, Num(30)) >>),
                    NoneFrame)

\* net income and equity vary period by period
EquityFeed ==
    \E P \in 1..MaxPeriods :
      \E ni \in [1..P -> NET_INCOME_VALUES], eq \in [1..P -> EQUITY_VALUES] :
        feed = Served(Frame(<< L_TOTAL_REVENUE, L_NET_INCOME >>, newest_first(P),
                            << const(P, Num(100)), ni >>),
                      Frame(<< L_TOTAL_EQUITY_GROSS, L_TOTAL_DEBT >>, newest_first(P),
                            << eq, const(P, Num(30)) >>),
                      NoneFrame)

\* the label each line item goes by in the statements of ResolveFeed
LABEL_OF ==
    [revenue |-> L_TOTAL_REVENUE, gross_profit |-> L_GROSS_PROFIT,
     operating_income |-> L_OPERATING_INCOME, net_income |-> L_NET_INCOME,
     total_equity |-> L_TOTAL_EQUITY_GROSS, total_debt |-> L_TOTAL_DEBT]
FIN_FIELDS == << "revenue", "gross_profit", "operating_income", "net_income" >>
BAL_FIELDS == << "total_equity", "total_debt" >>

\* the members of s that are in S, in the order of s
RECURSIVE select(_, _)
select(s, S) ==
    IF s = <<>> THEN <<>>
    ELSE (IF Head(s) \in S THEN << Head(s) >> ELSE <<>>) \o select(Tail(s), S)

\* a two-period statement with one row no candidate matches and the rows of
\* the line items in present
statement(other, fields, present) ==
    LET rows == select(fields, present)
    IN  Frame(<< other >> \o [i \in 1..Len(rows) |-> LABEL_OF[rows[i]]],
              << 2, 1 >>,
              << nums(<<5, 5>>) >> \o [i \in 1..Len(rows) |-> nums(<<20 + i, 10 + i>>)])

\* any subset of the six line items is in the statements
ResolveFeed ==
    \E present \in SUBSET RAW_FIELDS :
      feed = Served(statement(L_TAX_PROVISION, FIN_FIELDS, present),
                    statement(L_TOTAL_ASSETS, BAL_FIELDS, present), NoneFrame)

\* a statement is missing or has no rows or no columns, or the request fails
MissingFeed ==
    \/ \E fin \in {NoneFrame, EmptyFrame, Frame(<< L_NET_INCOME >>, <<>>, << <<>> >>), FinA},
          bal \in {NoneFrame, EmptyFrame, Frame(<<>>, << 2, 1 >>, <<>>), BalA} :
         feed = Served(fin, bal, NoneFrame)
    \/ feed = Unreachable

\* the CSV an earlier run left in data/processed
EARLIER == to_csv(compute_frame(Served(FinA, BalA, CfsA), TRUE))

MainInit ==
    /\ pc = "main"
    /\ GrowthFeed \/ EquityFeed \/ ResolveFeed \/ MissingFeed
    /\ pad \in BOOLEAN
    /\ proc \in {[t \in TICKERS |-> NoFile],
                 [t \in TICKERS |-> IF t = "ULVR.L" THEN EARLIER ELSE NoFile]}
    /\ Idle
    /\ NoPick

\* line 99
Main ==
    /\ pc = "main"
    /\ compute_kpis("ULVR.L", feed)
    /\ pc' = "exit"
    /\ UNCHANGED << feed, pad, memo, ticker, refresh, df, loaded, nload, UnusedPick >>

MainNext == Main

MainSpec == MainInit /\ [][MainNext]_vars

----------------------------------------------------------------------------
(* Properties of the resolver, checked under PickSpec *)

\* the rows and candidates of the resolver run, normalised
RowKey(i) == norm(pick_df.index[i])
CandKey(n) == norm(pick_names[n])
RowSeries(i) == [none |-> FALSE, index |-> pick_df.columns, vals |-> pick_df.data[i]]

\* candidates that are some row's label exactly, once both are normalised
ExactCands ==
    {n \in 1..Len(pick_names) : \E i \in 1..Len(pick_df.index) : RowKey(i) = CandKey(n)}
\* rows whose normalised label contains some normalised candidate
ContainingRows ==
    {i \in 1..Len(pick_df.index) :
        \E n \in 1..Len(pick_names) : str_in(CandKey(n), RowKey(i))}

\* C1: when some candidate equals, after trimming and lower-casing, the
\* trimmed lower-cased label of a row, _pick returns the series of a row whose
\* normalised label is the earliest such candidate's, whatever the order of
\* the rows and whatever other rows merely contain a candidate.
C1_ExactMatchWins ==
    (pc = "picked" /\ usable(pick_df) /\ ExactCands # {}) =>
        \E i \in 1..Len(pick_df.index) :
            /\ RowKey(i) = CandKey(Min(ExactCands))
            /\ pick_out = RowSeries(i)

\* C1 witness: the first candidate matches no row exactly, an earlier row
\* only contains it, and the row of the second candidate is returned.
C1_Witness ==
    /\ pc = "picked" /\ usable(pick_df)
    /\ ExactCands # {} /\ Min(ExactCands) = 2
    /\ \E i, j \in 1..Len(pick_df.index) :
          /\ i < j
          /\ str_in(CandKey(1), RowKey(i)) /\ i \notin {r \in 1..Len(pick_df.index) :
                                                        \E n \in ExactCands : RowKey(r) = CandKey(n)}
          /\ RowKey(j) = CandKey(2)
          /\ pick_out = RowSeries(j)
          /\ pick_out # RowSeries(i)

\* C2: with no exact match and some row containing a candidate, _pick returns
\* the series of the first such row in table order, also when several rows
\* share a normalised label.
C2_FirstContainingRow ==
    (pc = "picked" /\ usable(pick_df) /\ ExactCands = {} /\ ContainingRows # {}) =>
        pick_out = RowSeries(Min(ContainingRows))

----------------------------------------------------------------------------
(* Properties of the calculator, checked under MainSpec *)

Table == out.frame
Periods == 1..Len(Table.index)
Computed == pc = "exit" /\ out.status = OK
Absent(x) == isna(x)
ZeroOrAbsent(x) == IsZero(x) \/ isna(x)
Ascending(index) == \A i, j \in 1..Len(index) : i < j => index[i] < index[j]

\* C3: compute_kpis raises the missing-statements error whenever the income
\* statement or the balance sheet is None or empty, and a call that raises
\* leaves the processed CSV of the ticker as it was, created or not.
C3_NoPartialPersistence ==
    [][pc = "main" =>
         /\ (~feed.raises /\ (~usable(feed.fin) \/ ~usable(feed.bal)))
                => out'.status = MISSING
         /\ out'.status # OK => proc' = proc]_vars

\* C3 witness: the balance sheet came back with no rows, the call raised and
\* the CSV of the earlier run is still there.
C3_Witness ==
    /\ pc = "exit"
    /\ usable(feed.fin) /\ ~feed.bal.none /\ empty(feed.bal)
    /\ out.status = MISSING
    /\ proc["ULVR.L"] = EARLIER

\* C6 as stated: wherever total_equity is zero or absent, debt_to_equity and
\* roe_pct are both absent.
C6_Original ==
    Computed =>
        \A i \in Periods :
            ZeroOrAbsent(Table.total_equity[i]) =>
                Absent(Table.debt_to_equity[i]) /\ Absent(Table.roe_pct[i])

\* the mean of total_equity at row i and the row before is absent or zero
AvgEquityZeroOrAbsent(i) ==
    \/ i = 1
    \/ Absent(Table.total_equity[i - 1]) \/ Absent(Table.total_equity[i])
    \/ IsZero(FAdd(Table.total_equity[i - 1], Table.total_equity[i]))

\* C6 amended: debt_to_equity is absent wherever total_equity is zero or
\* absent; roe_pct is absent wherever avg_equity is zero or absent, so
\* wherever total_equity is absent; neither is ever infinite.
C6_Amended ==
    Computed =>
        \A i \in Periods :
            /\ ZeroOrAbsent(Table.total_equity[i]) => Absent(Table.debt_to_equity[i])
            /\ AvgEquityZeroOrAbsent(i) => Absent(Table.roe_pct[i])
            /\ Absent(Table.total_equity[i]) => Absent(Table.roe_pct[i])
            /\ ~IsInf(Table.debt_to_equity[i]) /\ ~IsInf(Table.roe_pct[i])

\* C6 witness: a period with zero equity after one with equity, where
\* debt_to_equity is absent and roe_pct is not.
C6_Witness ==
    /\ Computed
    /\ \E i \in Periods :
          /\ IsZero(Table.total_equity[i])
          /\ Absent(Table.debt_to_equity[i])
          /\ ~Absent(Table.roe_pct[i])

\* what C7 takes the growth of column col at row i to be
GrowthOf(col, i) ==
    IF i = 1 \/ ZeroOrAbsent(col[i - 1]) THEN NaN
    ELSE FDiv(FSub(col[i], col[i - 1]), col[i - 1])

\* C7: revenue_yoy and net_income_yoy are absent at the first period and
\* after a zero or absent value, and otherwise the change from the row
\* before divided by it; never infinite, never taken from an earlier row.
C7_GrowthGuarded ==
    Computed =>
        \A i \in Periods :
            /\ Table.revenue_yoy[i] = GrowthOf(Table.revenue, i)
            /\ Table.net_income_yoy[i] = GrowthOf(Table.net_income, i)

\* C8: roe_pct is net_income over the mean of total_equity at the row and at
\* the row before in ascending period order, and is absent exactly when that
\* mean is absent or zero or net_income is absent.
C8_ReturnOnAverageEquity ==
    Computed =>
        /\ Ascending(Table.index)
        /\ \A i \in Periods :
              /\ Absent(Table.roe_pct[i]) <=>
                     (AvgEquityZeroOrAbsent(i) \/ Absent(Table.net_income[i]))
              /\ ~Absent(Table.roe_pct[i]) =>
                     Table.roe_pct[i] =
                         FDiv(Table.net_income[i],
                              FDiv(FAdd(Table.total_equity[i - 1], Table.total_equity[i]),
                                   Num(2)))

\* C8 witness: total_equity 50 then 0 and net_income 10 and 10 give roe_pct
\* 0.4 at the second period, where debt_to_equity is absent.
C8_Witness ==
    /\ Computed
    /\ Table.total_equity = << Num(50), Num(0) >>
    /\ Table.net_income = << Num(10), Num(10) >>
    /\ Table.roe_pct[2] = Rat(2, 5)
    /\ Absent(Table.debt_to_equity[2])

\* the line items _pick finds in the statements served
Resolved == {f \in RAW_FIELDS : ~pick_items(feed.fin, feed.bal)[f].none}
AllAbsent(col) == \A i \in 1..Len(col) : Absent(col[i])
DEPENDS ==
    [gross_margin_pct |-> {"gross_profit", "revenue"},
     operating_margin_pct |-> {"operating_income", "revenue"},
     net_margin_pct |-> {"net_income", "revenue"},
     roe_pct |-> {"net_income", "total_equity"},
     debt_to_equity |-> {"total_debt", "total_equity"},
     revenue_yoy |-> {"revenue"},
     net_income_yoy |-> {"net_income"}]

\* C9: with both statements non-empty, whichever of the six line items fail
\* to resolve, all six included, compute_kpis completes and writes a table in
\* which each unresolved item and every KPI that depends on it is absent
\* throughout.
C9_UnresolvedNeverFails ==
    (pc = "exit" /\ ~feed.raises /\ usable(feed.fin) /\ usable(feed.bal)) =>
        /\ out.status = OK
        /\ proc["ULVR.L"] = to_csv(Table)
        /\ \A f \in RAW_FIELDS \ Resolved : AllAbsent(Table[f])
        /\ \A k \in DOMAIN DEPENDS :
              (DEPENDS[k] \ Resolved # {}) => AllAbsent(Table[k])

----------------------------------------------------------------------------
(* Properties of the dashboard, checked under Spec *)

\* the CSV of ticker t as load_kpis reads it
Persisted(t) == sort_index(read_csv(proc[t]))
\* this step is a call load_kpis(t)
LoadCall(t) == nload' = nload + 1 /\ loaded'.ticker = t
\* no CSV is ever removed
FilesStay == \A t \in TICKERS : proc[t].exists => proc'[t].exists

\* C4 as stated: with a CSV for the ticker, load returns it sorted without a
\* compute_kpis call; with none, load calls compute_kpis once, after which
\* the CSV exists and is what load returns; CSVs stay, so loads of a
\* persisted ticker never recompute.
C4_Original ==
    [][/\ FilesStay
       /\ \A t \in TICKERS : LoadCall(t) =>
            IF proc[t].exists
            THEN /\ ~loaded'.raised /\ loaded'.frame = Persisted(t)
                 /\ ncompute' = ncompute /\ proc' = proc
            ELSE /\ ncompute' = [ncompute EXCEPT ![t] = @ + 1]
                 /\ proc'[t].exists
                 /\ ~loaded'.raised /\ loaded'.frame = sort_index(read_csv(proc'[t]))]_vars

\* C4 amended: as stated, but the CSV exists and is returned after the one
\* compute_kpis call only if that call completes; if it raises, load raises
\* and no CSV is written.
C4_Amended ==
    [][/\ FilesStay
       /\ \A t \in TICKERS : LoadCall(t) =>
            IF proc[t].exists
            THEN /\ ~loaded'.raised /\ loaded'.frame = Persisted(t)
                 /\ ncompute' = ncompute /\ proc' = proc
            ELSE /\ ncompute' = [ncompute EXCEPT ![t] = @ + 1]
                 /\ IF out'.status = OK
                    THEN /\ proc'[t].exists
                         /\ ~loaded'.raised
                         /\ loaded'.frame = sort_index(read_csv(proc'[t]))
                    ELSE loaded'.raised /\ proc' = proc]_vars

\* C4 witness: in one run, a load computed and wrote the CSV of a ticker and
\* a later load of the same ticker returned that CSV without computing.
C4_Witness ==
    /\ pc = "compare" /\ ~refresh
    /\ nload = 3
    /\ loaded.ticker = ticker /\ ~loaded.raised
    /\ ncompute[ticker] = 1
    /\ proc[ticker].exists /\ loaded.frame = Persisted(ticker)

\* C5: a Refresh followed by the load of the same run makes exactly one
\* compute_kpis call (hence one fetch) for the ticker, and the load returns
\* the table that call computed, not an earlier cached copy.
C5_RefreshThenLoad ==
    (refresh /\ pc \in {"sector", "compare"}) =>
        /\ ncompute[ticker] = 1
        /\ nload = 1 =>
              /\ out.status = OK /\ out.ticker = ticker
              /\ loaded.ticker = ticker /\ ~loaded.raised
              /\ loaded.frame = sort_index(out.frame)
              /\ df = loaded.frame

\* C5 witness: the load after a Refresh returned a table served differently
\* from the one first computed for the ticker.
C5_Witness ==
    /\ refresh /\ pc = "sector" /\ nload = 1
    /\ ncompute[ticker] = 1
    /\ df = sort_index(compute_frame(Served(FinB, BalA, CfsA), pad))
    /\ memo[ticker] = Entry(df)

\* C10: every table load_kpis holds in its cache or has returned in this
\* run is the CSV of its ticker as persisted now, and a Refresh whose
\* compute_kpis raises changes neither the cache nor any CSV.
C10_CacheMatchesStore ==
    /\ [](\A t \in TICKERS :
            /\ memo[t].cached => (proc[t].exists /\ memo[t].value = Persisted(t))
            /\ (loaded.ticker = t /\ ~loaded.raised) =>
                   (proc[t].exists /\ loaded.frame = Persisted(t)))
    /\ [][(pc = "refresh" /\ out'.status # OK) => (memo' = memo /\ proc' = proc)]_vars

\* C10 witness: a Refresh failed while both tickers had a cached table.
C10_Witness ==
    /\ pc = "stopped" /\ refresh /\ nload = 0
    /\ out.status = MISSING
    /\ \A t \in TICKERS : memo[t].cached /\ memo[t].value = Persisted(t)

====
